---- MODULE Spec2Model ----
(***************************************************************************)
(* scripts/configure_rabbitmq.py: configuration of the central RabbitMQ    *)
(* broker (vhost, exchanges, queues, bindings) from a site config JSON.    *)
(*                                                                         *)
(* One run of main() is a sequence of steps, one per HTTP call the script  *)
(* issues through req() (or, with --dry-run, one per traced call), plus    *)
(* the steps that issue nothing (a skipped block, the final log line).     *)
(* JSON values are tagged records; a URL is the sequence of its path       *)
(* segments; stdout is the sequence of the lines log() printed.            *)
(***************************************************************************)
EXTENDS Integers, Sequences, FiniteSets, TLC

VARIABLES
    cfg,        \* the decoded config document (line 29)
    dry_run,    \* args.dry_run (line 75)
    pc,         \* position of main()
    i,          \* index of the channel the current loop (193 or 197) is at
    tuples,     \* ensure_queues_and_bindings: the list queues_for_block returned
    j,          \* ensure_queues_and_bindings: index of the tuple being applied
    network,    \* the HTTP calls requests.request was given, with their outcome
    stdout,     \* the lines printed by log()
    result,     \* "running", "ok" (return 0) or the name of the uncaught exception
    prev        \* the previous completed run on the same config, if any

vars == <<cfg, dry_run, pc, i, tuples, j, network, stdout, result, prev>>

(***************************************************************************)
(* Bounds of the model.                                                    *)
(***************************************************************************)
\* longest "queues" array of a channel block
MaxQueues == 2

(***************************************************************************)
(* JSON values and the Python operations the script applies to them.       *)
(***************************************************************************)
Absent == [t |-> "absent"]          \* a key the object does not have
None == [t |-> "null"]
JTrue == [t |-> "true"]
Str(s) == [t |-> "str", v |-> s]
List(s) == [t |-> "list", v |-> s]

\* Python truthiness, as used by `not block`, `not ex`, `not q_name`, `and queues`
Truthy(x) ==
    CASE x.t = "null" -> FALSE
      [] x.t = "str"  -> x.v # ""
      [] x.t = "list" -> x.v # <<>>
      [] x.t = "obj"  -> \E k \in DOMAIN x \ {"t"} : x[k].t # "absent"
      [] OTHER        -> TRUE

\* whether x has a .get method; calling .get on anything else raises AttributeError
IsDict(x) == x.t = "obj"

\* isinstance(queues, list)
IsList(x) == x.t = "list"

\* d.get(k)
Get(d, k) == IF d[k].t = "absent" THEN None ELSE d[k]

\* d.get(k, default)
GetDefault(d, k, default) == IF d[k].t = "absent" THEN default ELSE d[k]

\* d[k]: KeyError when the key is missing
HasKey(d, k) == d[k].t # "absent"

\* f"{x}" of a string or of None
Fmt(x) == IF x.t = "str" THEN x.v ELSE "None"

(***************************************************************************)
(* json.dumps of a request body: the text as a sequence of tokens.  A body *)
(* is a dict, kept as the sequence of its (key, value) items in insertion  *)
(* order; its values are strings or True.                                  *)
(***************************************************************************)
Dict(items) == [t |-> "dict", items |-> items]

Tok(s) == [q |-> FALSE, s |-> s]
QTok(s) == [q |-> TRUE, s |-> s]

DumpsValue(x) ==
    CASE x.t = "str"  -> QTok(x.v)
      [] x.t = "true" -> Tok("true")
      [] OTHER        -> Tok("null")

RECURSIVE DumpsItems(_)
DumpsItems(items) ==
    IF items = <<>> THEN <<>>
    ELSE <<QTok(Head(items)[1]), Tok(":"), DumpsValue(Head(items)[2])>>
         \o (IF Tail(items) = <<>> THEN <<>> ELSE <<Tok(",")>>)
         \o DumpsItems(Tail(items))

Dumps(payload) == <<Tok("{")>> \o DumpsItems(payload.items) \o <<Tok("}")>>

(***************************************************************************)
(* main(): locals computed from the arguments (lines 64-75).               *)
(***************************************************************************)
\* the keys of `sections`, in the insertion order the loops iterate in
ChannelNames == <<"telemetry", "events", "performance", "commands">>

NumChannels == Len(ChannelNames)

\* sections[name] = cfg.get(name)
sections(name) == Get(cfg, name)

\* vhost = cfg["vhost"], as formatted into URLs and log lines
vhost == Fmt(cfg.vhost)

\* base = args.base_url.rstrip("/") + "/api"
base == "<base_url>/api"

(***************************************************************************)
(* req(): the wrapper around requests.request that honours --dry-run.      *)
(***************************************************************************)
\* what the management API answers to a call
Outcomes == {"2xx", "non-2xx", "unreachable"}

\* requests.request raises when the API is unreachable (line 101)
RequestRaises(outcome) == outcome = "unreachable"

\* a req() without line 102: a non-2xx answer is returned like any other
raise_for_status_missing(outcome) == FALSE

\* r.raise_for_status() raises on a non-2xx status (line 102)
raise_for_status(outcome) == outcome = "non-2xx"

\* the exception req() lets through, if any
ReqError(outcome) ==
    IF RequestRaises(outcome) THEN "ConnectionError"
    ELSE IF raise_for_status(outcome) THEN "HTTPError"
    ELSE "none"

\* a dry-run line that leaves the body out
DryRunLineNoBody(method, url, payload) ==
    [tag |-> "[DRY-RUN]", method |-> method, url |-> url]

\* the line req() prints in dry-run mode (lines 94-98)
DryRunLine(method, url, payload) ==
    IF payload # None
    THEN [tag |-> "[DRY-RUN]", method |-> method, url |-> url, json |-> Dumps(payload)]
    ELSE [tag |-> "[DRY-RUN]", method |-> method, url |-> url]

\* the call req() hands to requests.request in live mode (line 101)
HttpCall(method, url, payload, outcome) ==
    [method |-> method, url |-> url, json |-> payload, outcome |-> outcome]

\* whether req() raised
Raised(outcome) == ~dry_run /\ ReqError(outcome) # "none"

\* req(method, url, json=payload), called after log() has made stdout `out`.
\* In dry-run mode it prints and returns None; the API is not called, so there
\* is no outcome to choose.
req(out, method, url, payload, outcome) ==
    /\ dry_run => outcome = "2xx"
    /\ stdout' = IF dry_run THEN Append(out, DryRunLine(method, url, payload)) ELSE out
    /\ network' = IF dry_run THEN network
                  ELSE Append(network, HttpCall(method, url, payload, outcome))
    /\ result' = IF Raised(outcome) THEN ReqError(outcome) ELSE result

(***************************************************************************)
(* ensure_exchange and queues_for_block: what they decide for a block.     *)
(***************************************************************************)
\* how a helper ends: it returns a value, returns early without a call, goes
\* on to its req() call, or raises AttributeError
Return(v) == [kind |-> "return", value |-> v]
Skip == [kind |-> "skip"]
Call(ex) == [kind |-> "call", ex |-> ex]
Raise == [kind |-> "raise"]

\* ensure_exchange reading a key the block does not have: nothing is ensured
ensure_exchange_wrong_key(block) ==
    IF ~Truthy(block) THEN Skip
    ELSE IF ~IsDict(block) THEN Raise
    ELSE Skip

\* ensure_exchange without the check of line 114
ensure_exchange_no_check(block) ==
    IF ~Truthy(block) THEN Skip
    ELSE IF ~IsDict(block) THEN Raise
    ELSE Call(Get(block, "exchange"))

\* ensure_exchange(block), up to its req(): the block is skipped, or its
\* exchange is ensured; block.get raises on a truthy block that is no dict
ensure_exchange(block) ==
    IF ~Truthy(block) THEN Skip
    ELSE IF ~IsDict(block) THEN Raise
    ELSE LET ex == Get(block, "exchange")
         IN  IF ~Truthy(ex) THEN Skip ELSE Call(ex)

\* the loop over block["queues"] (lines 150-156); q.get raises when q is no dict
RECURSIVE QueuesLoop(_, _, _)
QueuesLoop(ex, queues, acc) ==
    IF queues = <<>> THEN Return(acc)
    ELSE LET q == Head(queues)
         IN  IF ~IsDict(q) THEN Raise
             ELSE LET q_name == Get(q, "name")
                  IN  IF ~Truthy(q_name) THEN QueuesLoop(ex, Tail(queues), acc)
                      ELSE QueuesLoop(ex, Tail(queues),
                                      Append(acc, <<ex, q_name,
                                                    GetDefault(q, "routing_key", Str("#"))>>))

\* the legacy fallback (lines 159-164)
LegacyTuples(ex, block) ==
    LET q_name == Get(block, "queue")
    IN  IF Truthy(q_name)
        THEN <<<<ex, q_name, GetDefault(block, "routing_key", Str("#"))>>>>
        ELSE <<>>

\* queues_for_block without the check of line 142
queues_for_block_no_scope(name, block) ==
    IF ~Truthy(block) THEN Return(<<>>)
    ELSE IF ~IsDict(block) THEN Raise
    ELSE LET ex == Get(block, "exchange")
         IN  IF ~Truthy(ex) THEN Return(<<>>)
             ELSE LET queues == Get(block, "queues")
                  IN  IF IsList(queues) /\ Truthy(queues)
                      THEN QueuesLoop(ex, queues.v, <<>>)
                      ELSE Return(LegacyTuples(ex, block))

\* queues_for_block returning at line 156 only when the loop found a queue
queues_for_block_fallback(name, block) ==
    IF ~Truthy(block) THEN Return(<<>>)
    ELSE IF ~IsDict(block) THEN Raise
    ELSE LET ex == Get(block, "exchange")
         IN  IF ~Truthy(ex) THEN Return(<<>>)
             ELSE IF name = "commands" THEN Return(<<>>)
             ELSE LET queues == Get(block, "queues")
                      found == IF IsList(queues) /\ Truthy(queues)
                               THEN QueuesLoop(ex, queues.v, <<>>)
                               ELSE Return(<<>>)
                  IN  IF found.kind = "raise" THEN Raise
                      ELSE IF found.value # <<>> THEN found
                      ELSE Return(LegacyTuples(ex, block))

\* queues_for_block with line 149 testing the type alone
queues_for_block_any_list(name, block) ==
    IF ~Truthy(block) THEN Return(<<>>)
    ELSE IF ~IsDict(block) THEN Raise
    ELSE LET ex == Get(block, "exchange")
         IN  IF ~Truthy(ex) THEN Return(<<>>)
             ELSE IF name = "commands" THEN Return(<<>>)
             ELSE LET queues == Get(block, "queues")
                  IN  IF IsList(queues)
                      THEN QueuesLoop(ex, queues.v, <<>>)
                      ELSE Return(LegacyTuples(ex, block))

\* queues_for_block(name, block): the list of (exchange, queue, routing_key)
queues_for_block(name, block) ==
    IF ~Truthy(block) THEN Return(<<>>)
    ELSE IF ~IsDict(block) THEN Raise
    ELSE LET ex == Get(block, "exchange")
         IN  IF ~Truthy(ex) THEN Return(<<>>)
             ELSE IF name = "commands" THEN Return(<<>>)
             ELSE LET queues == Get(block, "queues")
                  IN  IF IsList(queues) /\ Truthy(queues)
                      THEN QueuesLoop(ex, queues.v, <<>>)
                      ELSE Return(LegacyTuples(ex, block))

(***************************************************************************)
(* The steps of main().                                                    *)
(***************************************************************************)
\* log(msg): the line appended to stdout
log(out, line) == Append(out, line)

\* line 64 written as cfg.get("vhost"): a missing key gives None
LoadConfigGet ==
    /\ pc = "start"
    /\ stdout' = log(stdout, [tag |-> "Configuring central broker",
                              vhost |-> vhost, dry_run |-> dry_run])
    /\ pc' = "ensure_vhost"
    /\ UNCHANGED <<cfg, dry_run, i, tuples, j, network, result, prev>>

\* line 64 and 187: vhost = cfg["vhost"] raises KeyError when the key is missing
LoadConfig ==
    /\ pc = "start"
    /\ IF HasKey(cfg, "vhost")
       THEN /\ stdout' = log(stdout, [tag |-> "Configuring central broker",
                                      vhost |-> vhost, dry_run |-> dry_run])
            /\ pc' = "ensure_vhost"
            /\ result' = result
       ELSE /\ result' = "KeyError"
            /\ pc' = "error"
            /\ stdout' = stdout
    /\ UNCHANGED <<cfg, dry_run, i, tuples, j, network, prev>>

\* an ensure_vhost that logs and leaves the req() of line 108 out
EnsureVhostNoReq ==
    /\ pc = "ensure_vhost"
    /\ stdout' = log(stdout, [tag |-> "Ensuring vhost", name |-> vhost])
    /\ pc' = "exchanges"
    /\ UNCHANGED <<cfg, dry_run, i, tuples, j, network, result, prev>>

\* line 190: ensure_vhost(vhost)
EnsureVhost ==
    /\ pc = "ensure_vhost"
    /\ \E outcome \in Outcomes :
          /\ req(log(stdout, [tag |-> "Ensuring vhost", name |-> vhost]),
                 "PUT", <<base, "vhosts", vhost>>, None, outcome)
          /\ pc' = IF Raised(outcome) THEN "error" ELSE "exchanges"
    /\ i' = 1
    /\ UNCHANGED <<cfg, dry_run, tuples, j, prev>>

\* the body sent with an exchange, a queue, a binding (lines 121, 174, 180)
ExchangeBody == Dict(<< <<"type", Str("topic")>>, <<"durable", JTrue>> >>)
QueueBody == Dict(<< <<"durable", JTrue>> >>)
BindingBody(rk) == Dict(<< <<"routing_key", rk>> >>)

\* lines 193-194: one iteration of `for block in sections.values()`
EnsureExchange ==
    /\ pc = "exchanges"
    /\ LET block == sections(ChannelNames[i])
           r == ensure_exchange(block)
           after == IF i < NumChannels THEN i + 1 ELSE 1
           nextpc == IF i < NumChannels THEN "exchanges" ELSE "queues"
       IN  IF r.kind = "raise"
           THEN /\ result' = "AttributeError"
                /\ pc' = "error"
                /\ UNCHANGED <<i, stdout, network>>
           ELSE IF r.kind = "skip"
           THEN /\ pc' = nextpc
                /\ i' = after
                /\ UNCHANGED <<stdout, network, result>>
           ELSE \E outcome \in Outcomes :
                   /\ req(log(stdout, [tag |-> "Ensuring exchange",
                                       ex |-> Fmt(r.ex), vhost |-> vhost]),
                          "PUT", <<base, "exchanges", vhost, Fmt(r.ex)>>,
                          ExchangeBody, outcome)
                   /\ pc' = IF Raised(outcome) THEN "error" ELSE nextpc
                   /\ i' = IF Raised(outcome) THEN i ELSE after
    /\ UNCHANGED <<cfg, dry_run, tuples, j, prev>>

\* where the loop of line 197 goes after the channel at i is finished
NextChannel ==
    IF i < NumChannels
    THEN pc' = "queues" /\ i' = i + 1
    ELSE pc' = "complete" /\ i' = i

\* lines 197-198 and 167: ensure_queues_and_bindings called, tuples computed
EnsureQueuesAndBindings ==
    /\ pc = "queues"
    /\ LET r == queues_for_block(ChannelNames[i], sections(ChannelNames[i]))
       IN  IF r.kind = "raise"
           THEN /\ result' = "AttributeError"
                /\ pc' = "error"
                /\ UNCHANGED <<i, tuples, j>>
           ELSE IF r.value = <<>>
           THEN /\ NextChannel
                /\ UNCHANGED <<tuples, j, result>>
           ELSE /\ tuples' = r.value
                /\ j' = 1
                /\ pc' = "put_queue"
                /\ UNCHANGED <<i, result>>
    /\ UNCHANGED <<cfg, dry_run, network, stdout, prev>>

\* lines 169-175: the queue of tuple j
EnsureQueue ==
    /\ pc = "put_queue"
    /\ LET ex == Fmt(tuples[j][1])
           q_name == Fmt(tuples[j][2])
           rk == Fmt(tuples[j][3])
       IN  \E outcome \in Outcomes :
              /\ req(log(stdout, [tag |-> "Ensuring queue and binding", q_name |-> q_name,
                                  vhost |-> vhost, ex |-> ex, rk |-> rk]),
                     "PUT", <<base, "queues", vhost, q_name>>, QueueBody, outcome)
              /\ pc' = IF Raised(outcome) THEN "error" ELSE "post_binding"
    /\ UNCHANGED <<cfg, dry_run, i, tuples, j, prev>>

\* lines 177-181: the binding of tuple j, then the next tuple or the next channel
EnsureBinding ==
    /\ pc = "post_binding"
    /\ LET ex == Fmt(tuples[j][1])
           q_name == Fmt(tuples[j][2])
           rk == tuples[j][3]
       IN  \E outcome \in Outcomes :
              /\ req(stdout, "POST", <<base, "bindings", vhost, "e", ex, "q", q_name>>,
                     BindingBody(rk), outcome)
              /\ IF Raised(outcome)
                 THEN pc' = "error" /\ UNCHANGED <<i, j>>
                 ELSE IF j < Len(tuples)
                 THEN pc' = "put_queue" /\ j' = j + 1 /\ i' = i
                 ELSE NextChannel /\ j' = j
    /\ UNCHANGED <<cfg, dry_run, tuples, prev>>

\* lines 200-201
Complete ==
    /\ pc = "complete"
    /\ stdout' = log(stdout, [tag |-> "Configuration complete."])
    /\ result' = "ok"
    /\ pc' = "done"
    /\ UNCHANGED <<cfg, dry_run, i, tuples, j, network, prev>>

\* the script run again on the same config after a run that ended without a
\* failed HTTP call; the process keeps nothing of the earlier run
Invoke ==
    /\ pc \in {"done", "error"}
    /\ result \in {"ok", "KeyError", "AttributeError"}
    /\ prev' = [exists |-> TRUE, dry_run |-> dry_run, network |-> network,
                stdout |-> stdout, result |-> result]
    /\ dry_run' \in BOOLEAN
    /\ pc' = "start"
    /\ i' = 1
    /\ tuples' = <<>>
    /\ j' = 1
    /\ network' = <<>>
    /\ stdout' = <<>>
    /\ result' = "running"
    /\ UNCHANGED cfg

(***************************************************************************)
(* The config documents the runs are given.  Names are distinct per        *)
(* channel, and the names of "queues" entries are distinct from the legacy *)
(* "queue" name, so that an operation tells which field it came from.      *)
(***************************************************************************)
ChannelSet == {ChannelNames[k] : k \in 1..NumChannels}

QueueName(c, k) ==
    CASE c = "telemetry"   -> (CASE k = "a" -> "telemetry.a" [] k = "b" -> "telemetry.b"
                                 [] OTHER -> "telemetry.q1")
      [] c = "events"      -> (CASE k = "a" -> "events.a" [] k = "b" -> "events.b"
                                 [] OTHER -> "events.q1")
      [] c = "performance" -> (CASE k = "a" -> "performance.a" [] k = "b" -> "performance.b"
                                 [] OTHER -> "performance.q1")
      [] OTHER             -> (CASE k = "a" -> "commands.a" [] k = "b" -> "commands.b"
                                 [] OTHER -> "commands.q1")

\* the exchange of channel c is named after it, as in the schema of lines 36-56
ExchangeName(c) == c

QueueSpec(name, rk) == [t |-> "obj", name |-> name, routing_key |-> rk]

\* the entries of a "queues" array: no object, no name, no routing key, complete
QueueEntries(c) ==
    { Str("oops"),
      QueueSpec(Absent, Str("ra")),
      QueueSpec(Str(QueueName(c, "a")), Absent),
      QueueSpec(Str(QueueName(c, "b")), Str("rb")) }

SeqsUpTo(S, n) == UNION {[1..k -> S] : k \in 0..n}

\* the "queues" values: missing, of the wrong type, or an array
QueuesValues(c) ==
    {Absent, Str("oops")} \cup {List(qs) : qs \in SeqsUpTo(QueueEntries(c), MaxQueues)}

\* the legacy fields (queue, routing_key): none, queue alone, both
LegacyValues(c) ==
    { <<Absent, Absent>>,
      <<Str(QueueName(c, "q1")), Absent>>,
      <<Str(QueueName(c, "q1")), Str("rk1")>> }

ChannelBlock(ex, queues, legacy) ==
    [t |-> "obj", exchange |-> ex, queues |-> queues,
     queue |-> legacy[1], routing_key |-> legacy[2]]

\* a legacy block, complete
LegacyBlock(c) ==
    ChannelBlock(Str(ExchangeName(c)), Absent, <<Str(QueueName(c, "q1")), Str("rk1")>>)

\* the blocks of channel c: missing, no object, without an exchange, with one
Blocks(c) ==
    {Absent, Str("oops")}
    \cup {ChannelBlock(ex, qs, lg) :
            ex \in {Absent, Str("")},
            qs \in {Absent, List(<<QueueSpec(Str(QueueName(c, "a")), Absent)>>)},
            lg \in {<<Absent, Absent>>, <<Str(QueueName(c, "q1")), Str("rk1")>>}}
    \cup {ChannelBlock(Str(ExchangeName(c)), qs, lg) :
            qs \in QueuesValues(c), lg \in LegacyValues(c)}

\* a config: one channel with any block, the others missing or legacy blocks
SiteConfig(vh, focus, b, others) ==
    [t |-> "obj", vhost |-> vh,
     telemetry   |-> IF focus = "telemetry" THEN b
                     ELSE IF "telemetry" \in others THEN LegacyBlock("telemetry") ELSE Absent,
     events      |-> IF focus = "events" THEN b
                     ELSE IF "events" \in others THEN LegacyBlock("events") ELSE Absent,
     performance |-> IF focus = "performance" THEN b
                     ELSE IF "performance" \in others THEN LegacyBlock("performance") ELSE Absent,
     commands    |-> IF focus = "commands" THEN b
                     ELSE IF "commands" \in others THEN LegacyBlock("commands") ELSE Absent]

\* the channels that come with a legacy block next to the focus channel
Others == {{}, {"events", "commands"}, ChannelSet}

Configs ==
    UNION { {SiteConfig(vh, focus, b, others) :
                vh \in {Absent, Str("kade")},
                b \in Blocks(focus),
                others \in Others} : focus \in ChannelSet }

NoPrev ==
    [exists |-> FALSE, dry_run |-> FALSE, network |-> <<>>, stdout |-> <<>>,
     result |-> "running"]

Init ==
    /\ cfg \in Configs
    /\ dry_run \in BOOLEAN
    /\ pc = "start"
    /\ i = 1
    /\ tuples = <<>>
    /\ j = 1
    /\ network = <<>>
    /\ stdout = <<>>
    /\ result = "running"
    /\ prev = NoPrev

Next ==
    \/ LoadConfig
    \/ EnsureVhost
    \/ EnsureExchange
    \/ EnsureQueuesAndBindings
    \/ EnsureQueue
    \/ EnsureBinding
    \/ Complete

Spec == Init /\ [][Next]_vars

NextRerun == Next \/ Invoke

SpecRerun == Init /\ [][NextRerun]_vars

(***************************************************************************)
(* Reading a run: the operations it issued, in order.                      *)
(***************************************************************************)
Operation(method, url, payload) == [method |-> method, url |-> url, json |-> payload]

\* the HTTP calls of a live run, without their outcome
Calls(net) == [k \in 1..Len(net) |-> Operation(net[k].method, net[k].url, net[k].json)]

\* the JSON text of a trace line parsed back into a body
LoadsValue(tok) ==
    IF tok.q THEN Str(tok.s) ELSE IF tok.s = "true" THEN JTrue ELSE None

RECURSIVE LoadsItems(_)
LoadsItems(toks) ==
    IF Len(toks) < 3 THEN <<>>
    ELSE LET rest == IF Len(toks) > 3 /\ toks[4] = Tok(",")
                     THEN SubSeq(toks, 5, Len(toks))
                     ELSE SubSeq(toks, 4, Len(toks))
         IN  <<<<toks[1].s, LoadsValue(toks[3])>>>> \o LoadsItems(rest)

Loads(toks) == Dict(LoadsItems(SubSeq(toks, 2, Len(toks) - 1)))

IsDryRunLine(line) == line.tag = "[DRY-RUN]"

\* the dry-run trace of a run, stripped of its log formatting
Traced(out) ==
    LET lines == SelectSeq(out, IsDryRunLine)
    IN  [k \in 1..Len(lines) |->
            Operation(lines[k].method, lines[k].url,
                      IF "json" \in DOMAIN lines[k] THEN Loads(lines[k].json) ELSE None)]

\* the operations the current run has issued (live) or traced (dry-run)
Issued == IF dry_run THEN Traced(stdout) ELSE Calls(network)

IsVhostOp(op) == op.method = "PUT" /\ op.url[2] = "vhosts"
IsExchangeOp(op) == op.method = "PUT" /\ op.url[2] = "exchanges"
IsQueueOp(op) == op.method = "PUT" /\ op.url[2] = "queues"
IsBindingOp(op) == op.method = "POST" /\ op.url[2] = "bindings"

EnsureVhostOp(vh) == Operation("PUT", <<base, "vhosts", vh>>, None)
EnsureExchangeOp(vh, ex) == Operation("PUT", <<base, "exchanges", vh, ex>>, ExchangeBody)
EnsureQueueOp(vh, q) == Operation("PUT", <<base, "queues", vh, q>>, QueueBody)
EnsureBindingOp(vh, ex, q, rk) ==
    Operation("POST", <<base, "bindings", vh, "e", ex, "q", q>>, BindingBody(Str(rk)))

QueueNamesOf(c) == {QueueName(c, "a"), QueueName(c, "b"), QueueName(c, "q1")}

\* op is an operation on the exchange or on a queue of channel c
OfChannel(op, c) ==
    \/ IsExchangeOp(op) /\ op.url[4] = ExchangeName(c)
    \/ IsQueueOp(op) /\ op.url[4] \in QueueNamesOf(c)
    \/ IsBindingOp(op) /\ (op.url[5] = ExchangeName(c) \/ op.url[7] \in QueueNamesOf(c))

OpsOfChannel(c) == LET T(op) == OfChannel(op, c) IN SelectSeq(Issued, T)

QueueOpsOfChannel(c) ==
    LET T(op) == OfChannel(op, c) /\ ~IsExchangeOp(op) IN SelectSeq(Issued, T)

HasExchange(block) == IsDict(block) /\ Truthy(Get(block, "exchange"))
NoExchange(block) == IsDict(block) /\ ~Truthy(Get(block, "exchange"))
FullyManaged == {"telemetry", "events", "performance"}

(***************************************************************************)
(* Properties.                                                             *)
(***************************************************************************)

\* C1: in live and in dry-run mode, every operation issued for the commands
\* channel is the EnsureExchange of its exchange, and there is at most one: no
\* EnsureQueue and no EnsureBinding is issued for it, whatever its block holds.
\* A completed run whose commands block has an exchange issued exactly that
\* one EnsureExchange for it.
C1_CommandsExchangeOnly ==
    LET ops == OpsOfChannel("commands")
    IN  /\ \A k \in 1..Len(ops) :
              ops[k] = EnsureExchangeOp(vhost, ExchangeName("commands"))
        /\ Len(ops) <= 1
        /\ (pc = "done" /\ HasExchange(sections("commands")))
              => ops = <<EnsureExchangeOp(vhost, ExchangeName("commands"))>>

\* a completed run whose commands block has an exchange, a queues array with a
\* named entry and the legacy queue
C1_Witness ==
    /\ pc = "done"
    /\ HasExchange(sections("commands"))
    /\ IsList(sections("commands").queues)
    /\ Len(sections("commands").queues.v) = MaxQueues
    /\ \A k \in 1..MaxQueues :
          /\ IsDict(sections("commands").queues.v[k])
          /\ HasKey(sections("commands").queues.v[k], "name")
    /\ HasKey(sections("commands"), "queue")
    /\ Len(OpsOfChannel("commands")) = 1

\* C2: every EnsureBinding issued is preceded in the executed order by the
\* EnsureExchange of its exchange and the EnsureQueue of its queue, and in
\* live mode both of these calls succeeded.
C2_BindingAfterExchangeAndQueue ==
    LET ops == Issued
    IN  \A k \in 1..Len(ops) :
            IsBindingOp(ops[k]) =>
                /\ \E a \in 1..(k - 1) :
                      /\ ops[a] = EnsureExchangeOp(ops[k].url[3], ops[k].url[5])
                      /\ ~dry_run => network[a].outcome = "2xx"
                /\ \E b \in 1..(k - 1) :
                      /\ ops[b] = EnsureQueueOp(ops[k].url[3], ops[k].url[7])
                      /\ ~dry_run => network[b].outcome = "2xx"

\* a live run that issued the bindings of two channels
C2_Witness ==
    /\ ~dry_run
    /\ \E k, l \in 1..Len(Issued) :
          /\ IsBindingOp(Issued[k])
          /\ IsBindingOp(Issued[l])
          /\ Issued[k].url[5] # Issued[l].url[5]

\* C3: a run that got past the loading of the config issued EnsureVhost as
\* its first operation and never again; before that nothing is issued.
C3_VhostFirstAndOnce ==
    LET ops == Issued
    IN  IF pc \in {"start", "ensure_vhost"} \/ result = "KeyError"
        THEN ops = <<>>
        ELSE /\ Len(ops) >= 1
             /\ ops[1] = EnsureVhostOp(vhost)
             /\ \A k \in 2..Len(ops) : ~IsVhostOp(ops[k])

\* a completed run on a config with all four channel blocks
C3_Witness ==
    /\ pc = "done"
    /\ \A c \in ChannelSet : HasExchange(sections(c))
    /\ Len(Issued) > NumChannels + 1

\* C4: fail-fast in live mode.  A call that failed (non-2xx status or
\* transport error) is the last call the run issued (nothing after it, no
\* retry, no rollback call), the run has ended with that error and has not
\* printed "Configuration complete."; the calls before it succeeded and stay
\* as they were issued: a step only ever appends one call, a PUT or a POST.
C4_FailFast ==
    [][ /\ \A k \in 1..Len(network') :
              network'[k].outcome # "2xx" =>
                  /\ k = Len(network')
                  /\ pc' = "error"
                  /\ result' = ReqError(network'[k].outcome)
                  /\ \A n \in 1..Len(stdout') : stdout'[n].tag # "Configuration complete."
        /\ \/ network' = network
           \/ /\ Len(network') = Len(network) + 1
              /\ SubSeq(network', 1, Len(network)) = network
              /\ network'[Len(network')].method \in {"PUT", "POST"}
        /\ pc = "error" => UNCHANGED vars
      ]_vars

\* a live run that failed at a binding after five successful calls
C4_Witness ==
    /\ pc = "error"
    /\ result = "HTTPError"
    /\ Len(network) > NumChannels + 1
    /\ network[Len(network)].outcome = "non-2xx"
    /\ IsBindingOp(network[Len(network)])
    /\ \A k \in 1..(Len(network) - 1) : network[k].outcome = "2xx"

\* C5: dry-run mode issues no network call; and of two runs on the same
\* config, one dry-run and one live in which every call succeeded, the dry-run
\* trace stripped of its formatting is the sequence of the live run's calls
\* (same count, order, method, path and body), and both end the same way.
C5_DryRunEquivalence ==
    /\ dry_run => network = <<>>
    /\ (/\ pc \in {"done", "error"}
        /\ result \in {"ok", "KeyError", "AttributeError"}
        /\ prev.exists
        /\ prev.dry_run # dry_run)
          => /\ result = prev.result
             /\ IF dry_run
                THEN Traced(stdout) = Calls(prev.network)
                ELSE Calls(network) = Traced(prev.stdout)

\* a completed live run after a completed dry run, with queues and bindings
C5_Witness ==
    /\ pc = "done"
    /\ ~dry_run
    /\ prev.exists
    /\ prev.dry_run
    /\ Len(network) > NumChannels + 1
    /\ \E k \in 1..Len(network) : IsBindingOp(network[k])
    /\ Len(Traced(prev.stdout)) = Len(network)

\* C6: a config without "vhost" fails with the KeyError of line 64 before
\* anything is issued or traced, and the run does not end with success.
C6_MissingVhostFails ==
    ~HasKey(cfg, "vhost") =>
        /\ network = <<>>
        /\ stdout = <<>>
        /\ pc \in {"start", "error"}
        /\ pc = "error" => result = "KeyError"
        /\ result # "ok"

\* the run on a config without vhost has ended
C6_Witness ==
    /\ ~HasKey(cfg, "vhost")
    /\ \E c \in ChannelSet : HasExchange(sections(c))
    /\ pc = "error"
    /\ result = "KeyError"

\* C7 (as claimed): on a config that has a vhost no malformed sub-field raises
\* an error; the only exceptions a run ends with are those of failed calls.
C7_OnlyVhostIsFatal ==
    HasKey(cfg, "vhost") => result # "AttributeError"

\* the operations the named entries of a "queues" array of channel c stand
\* for, in declaration order
RECURSIVE OpsOfQueues(_, _)
OpsOfQueues(c, qs) ==
    IF qs = <<>> THEN <<>>
    ELSE LET q == Head(qs)
         IN  (IF IsDict(q) /\ HasKey(q, "name")
              THEN <<EnsureQueueOp(vhost, q.name.v),
                     EnsureBindingOp(vhost, ExchangeName(c), q.name.v,
                                     IF HasKey(q, "routing_key")
                                     THEN q.routing_key.v ELSE "#")>>
              ELSE <<>>)
             \o OpsOfQueues(c, Tail(qs))

IsPrefix(s, t) == Len(s) <= Len(t) /\ SubSeq(t, 1, Len(s)) = s

\* a block with an exchange, a non-empty "queues" array and the legacy queue
BothSchemas(block) ==
    /\ HasExchange(block)
    /\ IsList(block.queues)
    /\ block.queues.v # <<>>
    /\ HasKey(block, "queue")

\* C8: for a fully-managed channel whose block has an exchange, a non-empty
\* queues array and the legacy fields, the queue and binding operations of the
\* channel are those of the named queues[] entries, in declaration order (all
\* of them once the run is complete), and none names the legacy queue or
\* carries the legacy routing key.
C8_SchemaPrecedence ==
    \A c \in FullyManaged :
        BothSchemas(sections(c)) =>
            LET ops == QueueOpsOfChannel(c)
                want == OpsOfQueues(c, sections(c).queues.v)
            IN  /\ IsPrefix(ops, want)
                /\ pc = "done" => ops = want
                /\ \A k \in 1..Len(ops) :
                      /\ ops[k].url[Len(ops[k].url)] # QueueName(c, "q1")
                      /\ ops[k].json # BindingBody(Str("rk1"))

\* a completed run over a block with two named entries and both legacy fields
C8_Witness ==
    /\ pc = "done"
    /\ \E c \in FullyManaged :
          /\ BothSchemas(sections(c))
          /\ HasKey(sections(c), "routing_key")
          /\ Len(sections(c).queues.v) = MaxQueues
          /\ Len(QueueOpsOfChannel(c)) = MaxQueues + MaxQueues
          /\ QueueOpsOfChannel(c)[1] # QueueOpsOfChannel(c)[MaxQueues + 1]

\* a block with an exchange, "queues": [] and the legacy queue
EmptyArray(block) ==
    /\ HasExchange(block)
    /\ block.queues = List(<<>>)
    /\ HasKey(block, "queue")

\* C9: for a fully-managed channel whose block has an exchange, an empty
\* queues array and the legacy queue, a completed run issued for the channel
\* exactly EnsureQueue(queue) followed by EnsureBinding(exchange, queue, rk),
\* rk being the legacy routing_key, "#" when it is missing.
C9_EmptyArrayFallback ==
    \A c \in FullyManaged :
        EmptyArray(sections(c)) =>
            LET ops == QueueOpsOfChannel(c)
                q == sections(c).queue.v
                rk == IF HasKey(sections(c), "routing_key")
                      THEN sections(c).routing_key.v ELSE "#"
                want == <<EnsureQueueOp(vhost, q),
                          EnsureBindingOp(vhost, ExchangeName(c), q, rk)>>
            IN  /\ IsPrefix(ops, want)
                /\ pc = "done" => ops = want

\* a completed run over a block with "queues": [], queue q1 and routing key rk1
C9_Witness ==
    /\ pc = "done"
    /\ \E c \in FullyManaged :
          /\ EmptyArray(sections(c))
          /\ sections(c).routing_key = Str("rk1")
          /\ QueueOpsOfChannel(c) =
                <<EnsureQueueOp(vhost, QueueName(c, "q1")),
                  EnsureBindingOp(vhost, ExchangeName(c), QueueName(c, "q1"), "rk1")>>

\* the operations of a complete legacy block of channel c
LegacyOps(c) ==
    <<EnsureExchangeOp(vhost, ExchangeName(c))>>
    \o (IF c \in FullyManaged
        THEN <<EnsureQueueOp(vhost, QueueName(c, "q1")),
               EnsureBindingOp(vhost, ExchangeName(c), QueueName(c, "q1"), "rk1")>>
        ELSE <<>>)

\* C10: a step of either loop at a channel whose block has no exchange (absent
\* or empty) issues nothing and raises nothing, whatever the block's other
\* fields; and a completed run has issued no operation of such a channel and
\* all the operations of every other channel that has a complete legacy block.
C10_SkipOnMissingExchange ==
    [][ /\ (pc \in {"exchanges", "queues"} /\ NoExchange(sections(ChannelNames[i])))
            => /\ Issued' = Issued
               /\ network' = network
               /\ result' = "running"
               /\ pc' # "error"
        /\ pc' = "done" =>
              \A c \in ChannelSet :
                  /\ NoExchange(sections(c)) => OpsOfChannel(c)' = <<>>
                  /\ sections(c) = LegacyBlock(c) => OpsOfChannel(c)' = LegacyOps(c)
      ]_vars

\* a completed run over a block without exchange that has a queues array and
\* the legacy fields, next to the legacy blocks of the three other channels
C10_Witness ==
    /\ pc = "done"
    /\ \E c \in ChannelSet :
          /\ NoExchange(sections(c))
          /\ IsList(sections(c).queues)
          /\ HasKey(sections(c), "queue")
          /\ \A d \in ChannelSet \ {c} : sections(d) = LegacyBlock(d)
    /\ Len(Issued) > NumChannels + 1

====
